---- MODULE Spec2Model ----
(***************************************************************************)
(* A model of utensils/timeutils.py: the relative-duration parser, the     *)
(* ordered absolute-layout matcher, the timezone resolver, the parse       *)
(* orchestrator and align.  The library is stateless, so the state is the  *)
(* call in progress: which function was invoked, its arguments and its     *)
(* outcome.  Text is a sequence of one-character strings; a timedelta is   *)
(* Python's normalised (days, seconds, microseconds) triple.               *)
(*                                                                         *)
(* An intermediate value that is used more than once is bound with         *)
(* Only({e : x \in {v}}), which is e with x standing for the value of v.   *)
(***************************************************************************)
EXTENDS Integers, Sequences, FiniteSets, TLC

VARIABLES call, value, groups, clock, time_str, tz, now, frequency, ts, fmt,
          result

vars == <<call, value, groups, clock, time_str, tz, now, frequency, ts, fmt,
          result>>

(***************************************************************************)
(* Bounds of the model.                                                    *)
(***************************************************************************)
MaxLen == 3
MaxGroups == 2

\* the element of a one-element set
Only(S) == CHOOSE x \in S : TRUE

(***************************************************************************)
(* Characters and character classes of the regular expressions.            *)
(***************************************************************************)
DigitSeq == <<"0", "1", "2", "3", "4", "5", "6", "7", "8", "9">>

IsDigit(c) == \E i \in 1..10 : DigitSeq[i] = c

DigitVal(c) == (CHOOSE i \in 1..10 : DigitSeq[i] = c) - 1

LowerSeq == <<"a", "b", "c", "d", "e", "f", "g", "h", "i", "j", "k", "l", "m",
              "n", "o", "p", "q", "r", "s", "t", "u", "v", "w", "x", "y", "z">>

UpperSeq == <<"A", "B", "C", "D", "E", "F", "G", "H", "I", "J", "K", "L", "M",
              "N", "O", "P", "Q", "R", "S", "T", "U", "V", "W", "X", "Y", "Z">>

IsLetter(c) == \E i \in 1..26 : LowerSeq[i] = c \/ UpperSeq[i] = c

Lower(c) == IF \E i \in 1..26 : UpperSeq[i] = c
            THEN LowerSeq[CHOOSE i \in 1..26 : UpperSeq[i] = c]
            ELSE c

\* \w of the re module
IsWord(c) == IsDigit(c) \/ IsLetter(c) \/ c = "_"

\* \s of the re module
IsSpace(c) == c \in {" ", "\t", "\n"}

IsSign(c) == c \in {"-", "+"}

\* the character at position p (1-based), "" past the end
At(s, p) == IF p >= 1 /\ p <= Len(s) THEN s[p] ELSE ""

\* the characters a..b of s, those past the end left out
Slice(s, a, b) ==
    LET e == IF b > Len(s) THEN Len(s) ELSE b
    IN IF a > e THEN <<>> ELSE SubSeq(s, a, e)

RECURSIVE SkipSpace(_, _)
\* \s* : the position after the longest run of whitespace from p
SkipSpace(s, p) == IF IsSpace(At(s, p)) THEN SkipSpace(s, p + 1) ELSE p

RECURSIVE SkipDigits(_, _)
\* \d* : the position after the longest run of digits from p
SkipDigits(s, p) == IF IsDigit(At(s, p)) THEN SkipDigits(s, p + 1) ELSE p

RECURSIVE SkipWord(_, _)
\* \w* : the position after the longest run of word characters from p
SkipWord(s, p) == IF IsWord(At(s, p)) THEN SkipWord(s, p + 1) ELSE p

RECURSIVE DigitsVal(_)
\* the natural number a run of digits denotes
DigitsVal(s) == IF s = <<>> THEN 0
                ELSE 10 * DigitsVal(SubSeq(s, 1, Len(s) - 1)) + DigitVal(s[Len(s)])

(***************************************************************************)
(* FLOAT_PATTERN: an optional sign; then digits with an optional point     *)
(* and further digits, or a point and at least one digit; then an          *)
(* optional exponent, e or E with an optional sign and at least one digit. *)
(* Every later part of TIMEDELTA_PATTERN can match the empty string, so    *)
(* the greedy first attempt is the match.  Positions are 1-based and an    *)
(* end position is the index after the last character; 0 is "no match".    *)
(***************************************************************************)
MantissaStart(s, p) == IF IsSign(At(s, p)) THEN p + 1 ELSE p

\* digits with an optional point and digits, from q
DigitsPointEnd(s, q) ==
    Only({IF At(s, q2) = "." THEN SkipDigits(s, q2 + 1) ELSE q2 :
          q2 \in {SkipDigits(s, q)}})

MantissaEnd(s, p) ==
    Only({IF IsDigit(At(s, q)) THEN DigitsPointEnd(s, q)
          ELSE IF At(s, q) = "." /\ IsDigit(At(s, q + 1))
               THEN SkipDigits(s, q + 1)
               ELSE 0 :
          q \in {MantissaStart(s, p)}})

ExponentEnd(s, p) ==
    IF At(s, p) \in {"e", "E"}
    THEN Only({IF IsDigit(At(s, r)) THEN SkipDigits(s, r) ELSE p :
               r \in {MantissaStart(s, p + 1)}})
    ELSE p

FloatEnd(s, p) ==
    Only({IF m = 0 THEN 0 ELSE ExponentEnd(s, m) : m \in {MantissaEnd(s, p)}})

(***************************************************************************)
(* float(text) of a text FLOAT_PATTERN matched, kept exact as              *)
(* neg * mant * 10^exp10 with mant a natural number.                       *)
(***************************************************************************)
\* the position of the point in a mantissa, one past its end if it has none
PointAt(body) ==
    IF \E i \in 1..Len(body) : body[i] = "."
    THEN CHOOSE i \in 1..Len(body) : body[i] = "."
    ELSE Len(body) + 1

\* the digits of a mantissa before and after its point
MantissaDigits(body) ==
    Only({[ip |-> Slice(body, 1, dot - 1),
           fp |-> Slice(body, dot + 1, Len(body))] :
          dot \in {PointAt(body)}})

\* the value of the exponent that starts at m, 0 if there is none
ExponentVal(t, m) ==
    IF m > Len(t) THEN 0
    ELSE Only({IF At(t, m + 1) = "-" THEN 0 - ev ELSE ev :
               ev \in {DigitsVal(Slice(t, MantissaStart(t, m + 1), Len(t)))}})

\* float(t) given the end m of the mantissa of t
FloatAt(t, m) ==
    Only({[neg   |-> At(t, 1) = "-",
           mant  |-> DigitsVal(d.ip \o d.fp),
           exp10 |-> ExponentVal(t, m) - Len(d.fp)] :
          d \in {MantissaDigits(Slice(t, MantissaStart(t, 1), m - 1))}})

PyFloat(t) == FloatAt(t, MantissaEnd(t, 1))
(***************************************************************************)
(* datetime.timedelta: the normalised triple, 0 <= seconds < 86400 and     *)
(* 0 <= microseconds < 1000000, with |days| <= 999999999 (OverflowError    *)
(* beyond).  TdRaise carries the exception of a failed construction.       *)
(***************************************************************************)
Td(d, s, u) == [days |-> d, seconds |-> s, microseconds |-> u]

ZeroTd == Td(0, 0, 0)

TdOk(td) == [ok |-> TRUE, err |-> "", td |-> td]

TdRaise(e) == [ok |-> FALSE, err |-> e, td |-> ZeroTd]

TdNorm(d, s, u) ==
    LET s2 == s + (u \div 1000000)
    IN Td(d + (s2 \div 86400), s2 % 86400, u % 1000000)

TdInRange(td) == td.days >= -999999999 /\ td.days <= 999999999

TdChecked(td) == IF TdInRange(td) THEN TdOk(td) ELSE TdRaise("OverflowError")

TdNeg(td) == TdNorm(0 - td.days, 0 - td.seconds, 0 - td.microseconds)

\* timedelta.__add__
TdAdd(a, b) ==
    TdChecked(TdNorm(a.days + b.days, a.seconds + b.seconds,
                     a.microseconds + b.microseconds))

\* timedelta.__sub__
TdSub(a, b) == TdAdd(a, TdNeg(b))

\* timedelta(<unit> = n) for a natural number n
TdUnit(unit, n) ==
    CASE unit = "weeks"        -> TdNorm(7 * n, 0, 0)
      [] unit = "days"         -> TdNorm(n, 0, 0)
      [] unit = "hours"        -> TdNorm(0, 3600 * n, 0)
      [] unit = "minutes"      -> TdNorm(0, 60 * n, 0)
      [] unit = "seconds"      -> TdNorm(0, n, 0)
      [] unit = "milliseconds" -> TdNorm(0, 0, 1000 * n)
      [] unit = "microseconds" -> TdNorm(0, 0, n)

RECURSIVE TdMul10(_, _)
\* td * 10^n for a non-negative td, OverflowError past the day range
TdMul10(td, n) ==
    IF n = 0 \/ td = ZeroTd THEN TdOk(td)
    ELSE IF td.days > 99999999 THEN TdRaise("OverflowError")
    ELSE TdMul10(TdNorm(10 * td.days, 10 * td.seconds, 10 * td.microseconds),
                 n - 1)

\* one decimal digit shifted out of a non-negative td: last is the digit
\* dropped, sticky whether a digit dropped before it was non-zero
TdDiv10Step(x) ==
    LET s1 == (x.td.days % 10) * 86400 + x.td.seconds
        u1 == (s1 % 10) * 1000000 + x.td.microseconds
    IN [td     |-> Td(x.td.days \div 10, s1 \div 10, u1 \div 10),
        last   |-> u1 % 10,
        sticky |-> x.sticky \/ x.last # 0]

RECURSIVE TdDiv10(_, _)
TdDiv10(x, n) == IF n = 0 THEN x ELSE TdDiv10(TdDiv10Step(x), n - 1)

\* a non-negative td, its last digit dropped and the earlier ones, rounded
\* to the nearest microsecond, ties to even
TdRound(x) ==
    IF \/ x.last > 5
       \/ x.last = 5 /\ x.sticky
       \/ x.last = 5 /\ ~x.sticky /\ x.td.microseconds % 2 = 1
    THEN TdNorm(x.td.days, x.td.seconds, x.td.microseconds + 1)
    ELSE x.td

\* td / 10^n rounded to the nearest microsecond, ties to even
TdShiftDown(td, n) ==
    TdRound(TdDiv10([td |-> td, last |-> 0, sticky |-> FALSE], n))

\* the sign of num given to a magnitude that was constructed
TdSigned(mag, num) ==
    IF ~mag.ok THEN mag
    ELSE IF num.neg THEN TdChecked(TdNeg(mag.td)) ELSE mag

\* timedelta(**{unit: num}) for num = float(text)
TdOfFloat(unit, num) ==
    TdSigned(IF num.exp10 >= 0
             THEN TdMul10(TdUnit(unit, num.mant), num.exp10)
             ELSE TdOk(TdShiftDown(TdUnit(unit, num.mant), 0 - num.exp10)),
             num)

RECURSIVE Pow10(_)
Pow10(n) == IF n = 0 THEN 1 ELSE 10 * Pow10(n - 1)

\* int(num): truncation toward zero
PyInt(num) ==
    Only({IF num.neg THEN 0 - mag ELSE mag :
          mag \in {IF num.exp10 >= 0
                   THEN num.mant * Pow10(num.exp10)
                   ELSE num.mant \div Pow10(0 - num.exp10)}})

(***************************************************************************)
(* The unit table and the calendar lookup of the months branch.            *)
(***************************************************************************)
RECURSIVE Str(_)
\* the string a sequence of characters spells
Str(t) == IF t = <<>> THEN "" ELSE t[1] \o Str(Tail(t))

TIMEDELTA_ABBREVS ==
    << <<"hours", {"h"}>>,
       <<"minutes", {"m", "min"}>>,
       <<"seconds", {"s", "sec"}>>,
       <<"milliseconds", {"ms"}>>,
       <<"microseconds", {"us"}>>,
       <<"days", {"d"}>>,
       <<"weeks", {"w"}>>,
       <<"months", {"M"}>> >>

\* TIMEDELTA_ABBREV_DICT.get(units, units)
TIMEDELTA_ABBREV_DICT(units) ==
    IF \E i \in 1..Len(TIMEDELTA_ABBREVS) : units \in TIMEDELTA_ABBREVS[i][2]
    THEN TIMEDELTA_ABBREVS[CHOOSE i \in 1..Len(TIMEDELTA_ABBREVS) :
                               units \in TIMEDELTA_ABBREVS[i][2]][1]
    ELSE units

\* the keyword arguments timedelta() accepts; any other is a TypeError
TimedeltaKeywords ==
    {"days", "seconds", "microseconds", "milliseconds", "minutes", "hours",
     "weeks"}

\* the attributes of the class datetime.datetime that the module looks up
DatetimeAttributes == {"now", "utcnow", "strptime"}

isleap(year) == year % 4 = 0 /\ (year % 100 # 0 \/ year % 400 = 0)

mdays == <<31, 28, 31, 30, 31, 30, 31, 31, 30, 31, 30, 31>>

\* calendar.monthrange(year, month)[1], IllegalMonthError outside 1..12
monthrange(year, month) ==
    IF month < 1 \/ month > 12
    THEN [ok |-> FALSE, err |-> "IllegalMonthError", n |-> 0]
    ELSE [ok |-> TRUE, err |-> "",
          n |-> mdays[month] + (IF month = 2 /\ isleap(year) THEN 1 ELSE 0)]

days_in_prev_month(t) == monthrange(t.year, t.month - 1)

\* the months branch: days_in_prev_month(datetime.dateime.now()), then
\* timedelta(days=int(num)*_days); the attribute lookup comes first
MonthsDelta(num, clk) ==
    IF "dateime" \notin DatetimeAttributes THEN TdRaise("AttributeError")
    ELSE Only({IF ~dpm.ok THEN TdRaise(dpm.err)
               ELSE TdChecked(TdNorm(PyInt(num) * dpm.n, 0, 0)) :
               dpm \in {days_in_prev_month(clk)}})

(***************************************************************************)
(* TIMEDELTA_PATTERN.match(value, start): whitespace, the number (group    *)
(* 1), whitespace, the longest run of word characters (group 2),           *)
(* whitespace.  start and end are 1-based, end the index after the match.  *)
(***************************************************************************)
\* the groups of a match whose number is the characters p1..fe-1
MatchGroups(s, p1, fe) ==
    Only({Only({[matched |-> TRUE,
                 g1      |-> Slice(s, p1, fe - 1),
                 g2      |-> Slice(s, p2, p3 - 1),
                 end     |-> SkipSpace(s, p3)] :
                p3 \in {SkipWord(s, p2)}}) :
          p2 \in {SkipSpace(s, fe)}})

TimedeltaMatch(s, start) ==
    Only({Only({IF fe = 0
                THEN [matched |-> FALSE, g1 |-> <<>>, g2 |-> <<>>,
                      end |-> start]
                ELSE MatchGroups(s, p1, fe) :
                fe \in {FloatEnd(s, p1)}}) :
          p1 \in {SkipSpace(s, start)}})

\* GroupDelta with a slip: a group whose unit is unknown is skipped instead
\* of failing the call (C8 must tell the two apart)
GroupDeltaLenient(m, clk) ==
    Only({IF units = "months" THEN MonthsDelta(num, clk)
          ELSE IF units \notin TimedeltaKeywords THEN TdOk(ZeroTd)
          ELSE TdOfFloat(units, num) :
          num   \in {PyFloat(m.g1)},
          units \in {TIMEDELTA_ABBREV_DICT(IF m.g2 = <<>> THEN "seconds"
                                           ELSE Str(m.g2))}})

\* the duration one matched group adds
GroupDelta(m, clk) ==
    Only({IF units = "months" THEN MonthsDelta(num, clk)
          ELSE IF units \notin TimedeltaKeywords THEN TdRaise("TypeError")
          ELSE TdOfFloat(units, num) :
          num   \in {PyFloat(m.g1)},
          units \in {TIMEDELTA_ABBREV_DICT(IF m.g2 = <<>> THEN "seconds"
                                           ELSE Str(m.g2))}})

RECURSIVE ParseLoop(_, _, _, _)
\* the while loop of parse_timedelta from cursor start with running sum
ParseLoop(s, start, sum, clk) ==
    IF start > Len(s) THEN TdOk(sum)
    ELSE Only({
           IF ~m.matched THEN TdRaise("Exception")
           ELSE Only({
                  IF ~d.ok THEN d
                  ELSE Only({IF ~t.ok THEN t
                             ELSE ParseLoop(s, m.end, t.td, clk) :
                             t \in {TdAdd(sum, d.td)}}) :
                  d \in {GroupDelta(m, clk)}}) :
           m \in {TimedeltaMatch(s, start)}})

parse_timedelta(s, clk) == ParseLoop(s, 1, ZeroTd, clk)

(***************************************************************************)
(* datetime.datetime: the calendar fields and a tzinfo.  A tzinfo is       *)
(* naive (none), a FixedOffsetTZ, or the instance of a pytz zone that      *)
(* carries one UTC offset of that zone; offsets are in minutes.            *)
(***************************************************************************)
NaiveTz == [kind |-> "naive", name |-> "", offset |-> 0]

Dt(y, mo, d, h, mi, sec, us, tzi) ==
    [year |-> y, month |-> mo, day |-> d, hour |-> h, minute |-> mi,
     second |-> sec, microsecond |-> us, tzinfo |-> tzi]

DtOk(dt) == [ok |-> TRUE, err |-> "", dt |-> dt]

NoDt == Dt(1, 1, 1, 0, 0, 0, 0, NaiveTz)

DtRaise(e) == [ok |-> FALSE, err |-> e, dt |-> NoDt]

\* days from 1970-01-01 to day d of the year y1 that starts in March, mp
\* months after March (proleptic Gregorian)
DaysFromMarch(y1, mp, d) ==
    (y1 \div 400) * 146097 + (y1 % 400) * 365 + ((y1 % 400) \div 4)
    - ((y1 % 400) \div 100) + ((153 * mp + 2) \div 5) + d - 1 - 719468

\* days from 1970-01-01 to the civil date
DaysFromCivil(y, m, d) ==
    DaysFromMarch(IF m <= 2 THEN y - 1 ELSE y,
                  IF m > 2 THEN m - 3 ELSE m + 9, d)

\* the civil date of day doy of the March-based year yoe of era
CivilOf(era, yoe, doy, mp) ==
    [year  |-> yoe + era * 400 + (IF mp >= 10 THEN 1 ELSE 0),
     month |-> IF mp < 10 THEN mp + 3 ELSE mp - 9,
     day   |-> doy - ((153 * mp + 2) \div 5) + 1]

\* the civil date of day doe of the 400-year era
CivilOfEraDay(era, doe) ==
    Only({Only({CivilOf(era, yoe, doy, (5 * doy + 2) \div 153) :
                doy \in {doe - (365 * yoe + (yoe \div 4) - (yoe \div 100))}}) :
          yoe \in {(doe - (doe \div 1460) + (doe \div 36524)
                    - (doe \div 146096)) \div 365}})

\* the civil date of a day number
CivilFromDays(z0) ==
    CivilOfEraDay((z0 + 719468) \div 146097, (z0 + 719468) % 146097)

\* date.weekday(): Monday is 0
Weekday(y, m, d) == (DaysFromCivil(y, m, d) + 3) % 7

\* the arguments the datetime constructor accepts
ValidFields(y, mo, d, h, mi, sec) ==
    /\ y >= 1 /\ y <= 9999
    /\ mo >= 1 /\ mo <= 12
    /\ d >= 1 /\ d <= monthrange(y, mo).n
    /\ h >= 0 /\ h <= 23 /\ mi >= 0 /\ mi <= 59 /\ sec >= 0 /\ sec <= 59

\* the wall clock of a datetime as a duration since 1970-01-01 00:00:00
WallTd(dt) ==
    Td(DaysFromCivil(dt.year, dt.month, dt.day),
       dt.hour * 3600 + dt.minute * 60 + dt.second, dt.microsecond)

\* the datetime of a wall-clock duration since 1970-01-01, OverflowError
\* outside the years 1..9999
DtOfWall(td, tzi) ==
    IF td.days < -719162 \/ td.days > 2932896 THEN DtRaise("OverflowError")
    ELSE Only({DtOk(Dt(c.year, c.month, c.day, td.seconds \div 3600,
                       (td.seconds % 3600) \div 60, td.seconds % 60,
                       td.microseconds, tzi)) :
               c \in {CivilFromDays(td.days)}})

\* the duration w moved back by td
TdBack(w, td) ==
    TdNorm(w.days - td.days, w.seconds - td.seconds,
           w.microseconds - td.microseconds)

\* datetime - timedelta: wall-clock arithmetic, the tzinfo is kept
DtMinusTd(dt, td) == DtOfWall(TdBack(WallTd(dt), td), dt.tzinfo)

\* the UTC wall clock of an aware datetime
UtcTd(dt) == TdBack(WallTd(dt), Td(0, 60 * dt.tzinfo.offset, 0))

\* datetime - datetime: naive pairs by wall clock, aware pairs by UTC,
\* a mixed pair is a TypeError
DtMinusDt(a, b) ==
    IF (a.tzinfo.kind = "naive") # (b.tzinfo.kind = "naive")
    THEN TdRaise("TypeError")
    ELSE IF a.tzinfo.kind = "naive" THEN TdSub(WallTd(a), WallTd(b))
    ELSE TdSub(UtcTd(a), UtcTd(b))

\* dt.replace(tzinfo=tzi)
ReplaceTz(dt, tzi) == [dt EXCEPT !.tzinfo = tzi]

(***************************************************************************)
(* The pytz database as the module uses it: timezone(name), and a zone's   *)
(* localize and normalize.  Two zones are tabled, UTC and                  *)
(* America/New_York with its daylight-saving rule (the second Sunday of    *)
(* March to the first Sunday of November from 2007 on; the last Sundays of *)
(* April and October before, the rule of the epoch year 1970).             *)
(***************************************************************************)
ZoneNames == {"UTC", "America/New_York"}

PytzTz(name, off) == [kind |-> "pytz", name |-> name, offset |-> off]

TdLess(a, b) ==
    \/ a.days < b.days
    \/ a.days = b.days /\ a.seconds < b.seconds
    \/ a.days = b.days /\ a.seconds = b.seconds
       /\ a.microseconds < b.microseconds

\* the first Sunday on or after day d of month m
SundayFrom(y, m, d) == d + ((6 - Weekday(y, m, d)) % 7)

\* whether the UTC instant u of year y lies in New York's daylight time
NewYorkDstIn(y, u) ==
    IF y >= 2007
    THEN /\ ~TdLess(u, Td(DaysFromCivil(y, 3, SundayFrom(y, 3, 8)), 7 * 3600, 0))
         /\ TdLess(u, Td(DaysFromCivil(y, 11, SundayFrom(y, 11, 1)), 6 * 3600, 0))
    ELSE /\ ~TdLess(u, Td(DaysFromCivil(y, 4, SundayFrom(y, 4, 24)), 7 * 3600, 0))
         /\ TdLess(u, Td(DaysFromCivil(y, 10, SundayFrom(y, 10, 25)), 6 * 3600, 0))

\* whether New York observes daylight time at the UTC instant u
NewYorkDst(u) == NewYorkDstIn(CivilFromDays(u.days).year, u)

\* the zone's UTC offset in minutes at the UTC instant u
ZoneOffsetAt(name, u) ==
    IF name = "America/New_York"
    THEN (IF NewYorkDst(u) THEN -240 ELSE -300)
    ELSE 0

\* the offsets the zone takes: standard first
ZoneOffsets(name) ==
    IF name = "America/New_York" THEN <<-300, -240>> ELSE <<0, 0>>

\* the offset of the instance timezone(name) returns: the zone's first
\* entry, local mean time for New York
ZoneDefaultOffset(name) == IF name = "America/New_York" THEN -296 ELSE 0

TzOk(tzi, db) == [ok |-> TRUE, err |-> "", tzinfo |-> tzi, db |-> db]

TzRaise(e, db) == [ok |-> FALSE, err |-> e, tzinfo |-> NaiveTz, db |-> db]

\* a timezone specifier: absent, an integer, or a string
TzNone == [kind |-> "none", n |-> 0, s |-> <<>>]

TzInt(n) == [kind |-> "int", n |-> n, s |-> <<>>]

TzStr(s) == [kind |-> "str", n |-> 0, s |-> s]

\* bool(tz)
Truthy(spec) ==
    \/ spec.kind = "int" /\ spec.n # 0
    \/ spec.kind = "str" /\ spec.s # <<>>

\* pytz.timezone(tz): db counts the lookups made
pytz_timezone(spec) ==
    IF spec.kind = "none" THEN TzRaise("UnknownTimeZoneError", 1)
    ELSE IF spec.kind = "int" THEN TzRaise("AttributeError", 1)
    ELSE IF Str(spec.s) \in ZoneNames
         THEN TzOk(PytzTz(Str(spec.s), ZoneDefaultOffset(Str(spec.s))), 1)
         ELSE TzRaise("UnknownTimeZoneError", 1)

\* whether the wall clock w exists in the zone at the offset off
WallValid(name, w, off) ==
    ZoneOffsetAt(name, TdBack(w, Td(0, 60 * off, 0))) = off

\* of the zone's offsets the one valid at the wall clock w, the standard one
\* when both or neither are (is_dst=False)
LocalOffset(name, w) ==
    IF WallValid(name, w, ZoneOffsets(name)[2])
       /\ ~WallValid(name, w, ZoneOffsets(name)[1])
    THEN ZoneOffsets(name)[2]
    ELSE ZoneOffsets(name)[1]

\* <zone>.localize(dt): the wall clock is kept
pytz_localize(name, dt) ==
    IF dt.tzinfo.kind # "naive" THEN DtRaise("ValueError: not naive")
    ELSE DtOk(ReplaceTz(dt, PytzTz(name, LocalOffset(name, WallTd(dt)))))

\* the UTC instant u on the zone's wall clock at the offset off
ZoneWall(name, u, off) ==
    DtOfWall(TdBack(u, Td(0, 0 - 60 * off, 0)), PytzTz(name, off))

\* <zone>.normalize(dt): the same instant on the zone's wall clock
pytz_normalize(name, dt) ==
    IF dt.tzinfo.kind = "naive" THEN DtRaise("ValueError: naive")
    ELSE Only({ZoneWall(name, u, ZoneOffsetAt(name, u)) : u \in {UtcTd(dt)}})

(***************************************************************************)
(* FixedOffsetTZ and convert_tzinfo.                                       *)
(***************************************************************************)
\* FixedOffsetTZ.__init__
FixedOffsetTZ(minute_offset) ==
    IF minute_offset >= 1440 \/ minute_offset <= -1440
    THEN TzRaise("ValueError: minute offset must be in [-1439, 1439]", 0)
    ELSE TzOk([kind |-> "fixed", name |-> "", offset |-> minute_offset], 0)

\* FixedOffsetTZ.utcoffset(dt), as a timedelta
utcoffset(tzi, dt) == TdNorm(0, 60 * tzi.offset, 0)

\* FixedOffsetTZ.dst(dt), as a timedelta
dst(tzi, dt) == ZeroTd

\* FixedOffsetTZ.localize(dt)
fixed_localize(tzi, dt) == DtOk(ReplaceTz(dt, tzi))

\* int of the text s whose sign, if any, is at a, digits at b..c-1
IntText(s, a, b, c) ==
    IF c > b /\ SkipSpace(s, c) = Len(s) + 1
    THEN [ok |-> TRUE, err |-> "",
          n |-> IF At(s, a) = "-" THEN 0 - DigitsVal(Slice(s, b, c - 1))
                ELSE DigitsVal(Slice(s, b, c - 1))]
    ELSE [ok |-> FALSE, err |-> "ValueError", n |-> 0]

\* int(tz): an integer as it is; a string of an optional sign and digits,
\* whitespace around it stripped
PyIntOf(spec) ==
    IF spec.kind = "int" THEN [ok |-> TRUE, err |-> "", n |-> spec.n]
    ELSE IF spec.kind = "none" THEN [ok |-> FALSE, err |-> "TypeError", n |-> 0]
    ELSE Only({Only({IntText(spec.s, a, b, SkipDigits(spec.s, b)) :
                     b \in {MantissaStart(spec.s, a)}}) :
               a \in {SkipSpace(spec.s, 1)}})

\* the second try block of convert_tzinfo: pytz.timezone(tz), its
\* UnknownTimeZoneError turned into a ValueError
NamedZone(spec) ==
    Only({IF named.ok THEN named
          ELSE IF named.err = "UnknownTimeZoneError"
               THEN TzRaise("ValueError: unknown timezone", named.db)
               ELSE named :
          named \in {pytz_timezone(spec)}})

\* the first try block of convert_tzinfo: FixedOffsetTZ(int(tz)), a ValueError
\* of either call passed over
convert_tzinfo(spec) ==
    Only({IF ~i.ok /\ i.err # "ValueError" THEN TzRaise(i.err, 0)
          ELSE IF i.ok /\ FixedOffsetTZ(i.n).ok THEN FixedOffsetTZ(i.n)
          ELSE NamedZone(spec) :
          i \in {PyIntOf(spec)}})

\* localize(dt, normalize, tz)
localize(dt, normalize, spec) ==
    Only({IF ~z.ok THEN DtRaise(z.err)
          ELSE IF normalize THEN pytz_normalize(z.tzinfo.name, dt)
          ELSE DtOk(ReplaceTz(dt, z.tzinfo)) :
          z \in {pytz_timezone(spec)}})

\* local_now(): the clock's UTC reading expressed in America/New_York
local_now(utcnow) ==
    pytz_normalize("America/New_York", ReplaceTz(utcnow, PytzTz("UTC", 0)))

(***************************************************************************)
(* DATETIME_FORMATS and datetime.strptime.  A layout is its sequence of    *)
(* directives and literal characters.  strptime compiles the layout to a   *)
(* case-insensitive regular expression, a space of the layout standing for *)
(* one or more whitespace characters, takes the first match in the order   *)
(* of each directive's alternatives, and requires the match to end at the  *)
(* end of the text.                                                        *)
(***************************************************************************)
DATETIME_FORMATS ==
    << <<"%a", " ", "%b", " ", "%d", " ", "%H", ":", "%M", ":", "%S", " ", "%Y">>,
       <<"%Y", "-", "%m", "-", "%d", " ", "%H", ":", "%M", ":", "%S">>,
       <<"%Y", "-", "%m", "-", "%d", " ", "%H", ":", "%M">>,
       <<"%Y", "-", "%m", "-", "%d", "T", "%H", ":", "%M">>,
       <<"%Y", "%m", "%d", " ", "%H", ":", "%M", ":", "%S">>,
       <<"%Y", "%m", "%d", " ", "%H", ":", "%M">>,
       <<"%Y", "-", "%m", "-", "%d">>,
       <<"%Y", "%m", "%d">>,
       <<"%H", ":", "%M", ":", "%S">>,
       <<"%H", ":", "%M">> >>

DATE_TIME_FORMAT == DATETIME_FORMATS[2]

DayAbbr == << <<"m", "o", "n">>, <<"t", "u", "e">>, <<"w", "e", "d">>, <<"t", "h", "u">>, <<"f", "r", "i">>, <<"s", "a", "t">>, <<"s", "u", "n">> >>

MonthAbbr ==
    << <<"j", "a", "n">>, <<"f", "e", "b">>, <<"m", "a", "r">>, <<"a", "p", "r">>,
       <<"m", "a", "y">>, <<"j", "u", "n">>, <<"j", "u", "l">>, <<"a", "u", "g">>,
       <<"s", "e", "p">>, <<"o", "c", "t">>, <<"n", "o", "v">>, <<"d", "e", "c">> >>

LowerText(t) == [i \in 1..Len(t) |-> Lower(t[i])]

\* whether the character at p is a digit between lo and hi
DigitIn(s, p, lo, hi) ==
    IsDigit(At(s, p)) /\ DigitVal(At(s, p)) >= lo /\ DigitVal(At(s, p)) <= hi

RECURSIVE SpaceEnds(_, _)
\* the ends of one or more whitespace characters from p, the longest first
SpaceEnds(s, p) ==
    IF IsSpace(At(s, p)) THEN SpaceEnds(s, p + 1) \o <<p + 1>> ELSE <<>>

\* the alternatives of one directive at p, in the order the expression
\* tries them: each is whether it matches and the position after it
DirectiveAlternatives(tok, s, p) ==
    CASE tok = "%Y" ->
           << <<DigitIn(s, p, 0, 9) /\ DigitIn(s, p + 1, 0, 9)
                /\ DigitIn(s, p + 2, 0, 9) /\ DigitIn(s, p + 3, 0, 9), p + 4>> >>
      [] tok = "%m" ->
           << <<DigitIn(s, p, 1, 1) /\ DigitIn(s, p + 1, 0, 2), p + 2>>,
              <<DigitIn(s, p, 0, 0) /\ DigitIn(s, p + 1, 1, 9), p + 2>>,
              <<DigitIn(s, p, 1, 9), p + 1>> >>
      [] tok = "%d" ->
           << <<DigitIn(s, p, 3, 3) /\ DigitIn(s, p + 1, 0, 1), p + 2>>,
              <<DigitIn(s, p, 1, 2) /\ DigitIn(s, p + 1, 0, 9), p + 2>>,
              <<DigitIn(s, p, 0, 0) /\ DigitIn(s, p + 1, 1, 9), p + 2>>,
              <<DigitIn(s, p, 1, 9), p + 1>>,
              <<At(s, p) = " " /\ DigitIn(s, p + 1, 1, 9), p + 2>> >>
      [] tok = "%H" ->
           << <<DigitIn(s, p, 2, 2) /\ DigitIn(s, p + 1, 0, 3), p + 2>>,
              <<DigitIn(s, p, 0, 1) /\ DigitIn(s, p + 1, 0, 9), p + 2>>,
              <<DigitIn(s, p, 0, 9), p + 1>> >>
      [] tok = "%M" ->
           << <<DigitIn(s, p, 0, 5) /\ DigitIn(s, p + 1, 0, 9), p + 2>>,
              <<DigitIn(s, p, 0, 9), p + 1>> >>
      [] tok = "%S" ->
           << <<DigitIn(s, p, 6, 6) /\ DigitIn(s, p + 1, 0, 1), p + 2>>,
              <<DigitIn(s, p, 0, 5) /\ DigitIn(s, p + 1, 0, 9), p + 2>>,
              <<DigitIn(s, p, 0, 9), p + 1>> >>
      [] tok = "%a" ->
           << <<\E i \in 1..7 : LowerText(Slice(s, p, p + 2)) = DayAbbr[i]
                                /\ p + 2 <= Len(s), p + 3>> >>
      [] tok = "%b" ->
           << <<\E i \in 1..12 : LowerText(Slice(s, p, p + 2)) = MonthAbbr[i]
                                 /\ p + 2 <= Len(s), p + 3>> >>
      [] tok = " " ->
           [i \in 1..Len(SpaceEnds(s, p)) |-> <<TRUE, SpaceEnds(s, p)[i]>>]
      [] OTHER ->
           << <<p <= Len(s) /\ Lower(At(s, p)) = Lower(tok), p + 1>> >>

RECURSIVE MatchItems(_, _, _, _)
RECURSIVE TryAlternatives(_, _, _, _, _)
\* the first match of the layout's items i.. at position p: the positions
\* after each item
MatchItems(items, i, s, p) ==
    IF i > Len(items) THEN [ok |-> TRUE, ends |-> <<>>]
    ELSE TryAlternatives(items, i, s, DirectiveAlternatives(items[i], s, p), 1)

TryAlternatives(items, i, s, alts, k) ==
    IF k > Len(alts) THEN [ok |-> FALSE, ends |-> <<>>]
    ELSE IF ~alts[k][1] THEN TryAlternatives(items, i, s, alts, k + 1)
    ELSE Only({IF r.ok THEN [ok |-> TRUE, ends |-> <<alts[k][2]>> \o r.ends]
               ELSE TryAlternatives(items, i, s, alts, k + 1) :
               r \in {MatchItems(items, i + 1, s, alts[k][2])}})

\* int() of a captured field; the day field may carry a leading space
FieldVal(t) == DigitsVal(SelectSeq(t, IsDigit))

\* the fields acc after the capture t of the directive tok is applied
SetField(acc, tok, t) ==
    CASE tok = "%Y" -> [acc EXCEPT !.year = FieldVal(t)]
      [] tok = "%m" -> [acc EXCEPT !.month = FieldVal(t)]
      [] tok = "%d" -> [acc EXCEPT !.day = FieldVal(t)]
      [] tok = "%H" -> [acc EXCEPT !.hour = FieldVal(t)]
      [] tok = "%M" -> [acc EXCEPT !.minute = FieldVal(t)]
      [] tok = "%S" -> [acc EXCEPT !.second = FieldVal(t)]
      [] tok = "%b" ->
           [acc EXCEPT !.month = CHOOSE j \in 1..12 : MonthAbbr[j] = LowerText(t)]
      [] OTHER -> acc

RECURSIVE FieldsFrom(_, _, _, _, _)
\* the fields after the captures of items i.. are applied to acc
FieldsFrom(items, ends, s, i, acc) ==
    IF i > Len(items) THEN acc
    ELSE FieldsFrom(items, ends, s, i + 1,
                    SetField(acc, items[i],
                             Slice(s, IF i = 1 THEN 1 ELSE ends[i - 1],
                                   ends[i] - 1)))

\* the datetime of the parsed fields f
DtOfFields(f) ==
    IF ValidFields(f.year, f.month, f.day, f.hour, f.minute, f.second)
    THEN DtOk(f)
    ELSE DtRaise("ValueError: field out of range")

\* datetime.strptime(date_str, f)
strptime(s, items) ==
    Only({IF ~m.ok THEN DtRaise("ValueError: does not match format")
          ELSE IF m.ends[Len(items)] # Len(s) + 1
          THEN DtRaise("ValueError: unconverted data remains")
          ELSE DtOfFields(FieldsFrom(items, m.ends, s, 1,
                                     Dt(1900, 1, 1, 0, 0, 0, 0, NaiveTz))) :
          m \in {MatchItems(items, 1, s, 1)}})

RECURSIVE TryFormats(_, _)
\* the for loop of parse_datetime from layout k on
TryFormats(s, k) ==
    IF k > Len(DATETIME_FORMATS)
    THEN DtRaise("ValueError: Unrecognized date/time format")
    ELSE Only({IF val.ok THEN val ELSE TryFormats(s, k + 1) :
               val \in {strptime(s, DATETIME_FORMATS[k])}})

\* parse_datetime with a slip: the first layout of the list is never tried
\* (C9 must tell the two apart)
parse_datetime_from_second(date_str) == TryFormats(date_str, 2)

parse_datetime(date_str) == TryFormats(date_str, 1)

(***************************************************************************)
(* datetime_to_str: strftime, the inverse direction.                       *)
(***************************************************************************)
Digit(n) == DigitSeq[n + 1]

Pad2(n) == <<Digit(n \div 10), Digit(n % 10)>>

RECURSIVE Decimal(_)
\* the decimal digits of a natural number
Decimal(n) == IF n < 10 THEN <<Digit(n)>> ELSE Decimal(n \div 10) \o <<Digit(n % 10)>>

\* the name as strftime writes it: the first letter in upper case
Capitalised(t) ==
    <<UpperSeq[CHOOSE i \in 1..26 : LowerSeq[i] = t[1]]>> \o Tail(t)

\* what strftime writes for one item of a layout
FormatItem(tok, dt) ==
    CASE tok = "%Y" -> Decimal(dt.year)
      [] tok = "%m" -> Pad2(dt.month)
      [] tok = "%d" -> Pad2(dt.day)
      [] tok = "%H" -> Pad2(dt.hour)
      [] tok = "%M" -> Pad2(dt.minute)
      [] tok = "%S" -> Pad2(dt.second)
      [] tok = "%a" -> Capitalised(DayAbbr[Weekday(dt.year, dt.month, dt.day) + 1])
      [] tok = "%b" -> Capitalised(MonthAbbr[dt.month])
      [] OTHER -> <<tok>>

RECURSIVE strftime(_, _)
strftime(dt, items) ==
    IF items = <<>> THEN <<>>
    ELSE FormatItem(items[1], dt) \o strftime(dt, Tail(items))

\* datetime_to_str(dt, fmt)
datetime_to_str(dt, items) ==
    strftime(dt, IF items = <<>> THEN DATE_TIME_FORMAT ELSE items)

(***************************************************************************)
(* parse, the orchestrator.  time_str is absent, a string or a datetime.   *)
(* The outcome carries the value returned and the helpers that were        *)
(* called, in order.                                                       *)
(***************************************************************************)
TsNone == [kind |-> "none", text |-> <<>>, dt |-> NoDt]

TsStr(t) == [kind |-> "str", text |-> t, dt |-> NoDt]

TsDt(dt) == [kind |-> "datetime", text |-> <<>>, dt |-> dt]

PReturn(ret, calls) == [ok |-> TRUE, err |-> "", ret |-> ret, calls |-> calls]

PRaise(e, calls) == [ok |-> FALSE, err |-> e, ret |-> TsNone, calls |-> calls]

\* _as_datetime(t): None (ok = FALSE) on ValueError
as_datetime(t) == parse_datetime(t)

\* _as_timedelta(t, now): None (ok = FALSE) on any exception; an absent
\* now is read from the clock
as_timedelta(t, nw, clk) ==
    Only({IF ~d.ok THEN DtRaise(d.err)
          ELSE Only({IF ~ref.ok THEN ref ELSE DtMinusTd(ref.dt, d.td) :
                     ref \in {IF nw.kind = "datetime" THEN DtOk(nw.dt)
                              ELSE local_now(clk)}}) :
          d \in {parse_timedelta(t, clk)}})

\* <tzinfo>.localize(dt) of the tzinfo convert_tzinfo returned
tzinfo_localize(tzi, dt) ==
    IF tzi.kind = "fixed" THEN fixed_localize(tzi, dt)
    ELSE pytz_localize(tzi.name, dt)

\* line 174: the final normalize to America/New_York and the return
Normalized(fin, calls) ==
    IF ~fin.ok THEN PRaise(fin.err, calls) ELSE PReturn(TsDt(fin.dt), calls)

\* lines 171-174 after the localisation loc of dt: an UnknownTimeZoneError
\* becomes a ValueError; the value of localize(...) is dropped, dt is
\* rebound only when it was naive
Localized(loc, dt, calls) ==
    IF ~loc.ok /\ loc.err = "UnknownTimeZoneError"
    THEN PRaise("ValueError: unknown timezone", calls)
    ELSE IF ~loc.ok THEN PRaise(loc.err, calls)
    ELSE Normalized(pytz_normalize("America/New_York",
                                   IF dt.tzinfo.kind # "naive" THEN dt
                                   ELSE loc.dt),
                    calls \o <<"normalize">>)

\* lines 165-174: the timezone finalisation of a parsed dt
Finalise(dt, spec, calls) ==
    Only({IF ~tzi.ok THEN PRaise(tzi.err, calls \o <<"convert_tzinfo">>)
          ELSE IF dt.tzinfo.kind # "naive"
          THEN Localized(localize(dt, TRUE, spec), dt,
                         calls \o <<"convert_tzinfo", "localize">>)
          ELSE Localized(tzinfo_localize(tzi.tzinfo, dt), dt,
                         calls \o <<"convert_tzinfo", "tzinfo.localize">>) :
          tzi \in {convert_tzinfo(spec)}})

\* lines 161-176 for the value dt of line 159
Converted(dt, spec, calls) ==
    IF ~dt.ok THEN PRaise("ValueError: unable to convert to datetime", calls)
    ELSE IF Truthy(spec) THEN Finalise(dt.dt, spec, calls)
    ELSE PReturn(TsDt(dt.dt), calls)

\* parse with a slip: line 159 with its operands exchanged, the relative
\* parser tried before the absolute one (C10 must tell the two apart)
parse_relative_first(tstr, spec, nw, clk) ==
    IF tstr.kind # "str" \/ tstr.text = <<>>
    THEN PReturn(tstr, <<>>)
    ELSE Only({IF r.ok THEN Converted(r, spec, <<"_as_timedelta">>)
               ELSE Converted(as_datetime(tstr.text), spec,
                              <<"_as_timedelta", "_as_datetime">>) :
               r \in {as_timedelta(tstr.text, nw, clk)}})

parse(tstr, spec, nw, clk) ==
    IF tstr.kind # "str" \/ tstr.text = <<>>
    THEN PReturn(tstr, <<>>)
    ELSE Only({IF a.ok THEN Converted(a, spec, <<"_as_datetime">>)
               ELSE Converted(as_timedelta(tstr.text, nw, clk), spec,
                              <<"_as_datetime", "_as_timedelta">>) :
               a \in {as_datetime(tstr.text)}})

(***************************************************************************)
(* elapsed_seconds and align.  A float is kept as whole seconds and        *)
(* microseconds; the instants and frequencies of the model are whole       *)
(* seconds, for which the float arithmetic is exact.                       *)
(***************************************************************************)
\* elapsed_seconds with a slip: the days of the duration are left out (C7
\* must tell the two apart)
elapsed_seconds_without_days(delta) ==
    [sec |-> delta.seconds, us |-> delta.microseconds]

elapsed_seconds(delta) ==
    [sec |-> (24 * 60 * 60) * delta.days + delta.seconds,
     us  |-> delta.microseconds]

\* a % b with the sign of the dividend, as C's fmod has it (C6 must tell
\* the two apart)
PyModTruncated(a, b) ==
    IF b > 0 THEN (IF a >= 0 THEN a % b ELSE 0 - ((0 - a) % b))
    ELSE (IF a >= 0 THEN a % (0 - b) ELSE 0 - ((0 - a) % (0 - b)))

\* a % b of Python: the sign of the result is the divisor's
PyMod(a, b) == IF b > 0 THEN a % b ELSE 0 - ((0 - a) % (0 - b))

\* x % y of two floats, ZeroDivisionError for y = 0.0
FloatMod(x, y) ==
    IF y.sec = 0 /\ y.us = 0
    THEN [ok |-> FALSE, err |-> "ZeroDivisionError", sec |-> 0, us |-> 0]
    ELSE [ok |-> TRUE, err |-> "", sec |-> PyMod(x.sec, y.sec), us |-> 0]

\* datetime(*time.gmtime(0)[:6])
Epoch == Dt(1970, 1, 1, 0, 0, 0, 0, NaiveTz)

\* lines 228-230: the epoch, localised by the tzinfo of an aware ts
EpochFor(t) ==
    IF t.tzinfo.kind = "naive" THEN DtOk(Epoch)
    ELSE tzinfo_localize(t.tzinfo, Epoch)

align(freq, t) ==
    Only({IF ~epoch.ok THEN epoch
          ELSE Only({
                 IF ~delta.ok THEN DtRaise(delta.err)
                 ELSE Only({IF ~offset.ok THEN DtRaise(offset.err)
                            ELSE DtMinusTd(t, TdNorm(0, offset.sec, offset.us)) :
                            offset \in {FloatMod(elapsed_seconds(delta.td),
                                                 elapsed_seconds(freq))}}) :
                 delta \in {DtMinusDt(t, epoch.dt)}}) :
          epoch \in {EpochFor(t)}})

(***************************************************************************)
(* The inputs of the model.                                                *)
(***************************************************************************)
SeqsUpTo(S, n) == UNION {[1..k -> S] : k \in 0..n}

\* the characters of the raw texts handed to parse_timedelta and
\* parse_datetime
RawAlphabet == {"1", "5", ".", "e", "-", " ", ":", "h", "M", "x"}

RawTexts == SeqsUpTo(RawAlphabet, MaxLen)

\* the unit tokens of the abbreviation table other than M
TableUnits == {<<"h">>, <<"m">>, <<"m", "i", "n">>, <<"s">>, <<"s", "e", "c">>, <<"m", "s">>, <<"u", "s">>, <<"d">>, <<"w">>}

\* a group is a number, a unit token and the whitespace after it
GroupNums == {<<"1">>, <<"3", "0">>}

GroupUnits == TableUnits \cup {<<>>, <<"M">>, <<"x">>, <<"h", "o", "u", "r", "s">>}

Groups == [num : GroupNums, unit : GroupUnits, sep : {<<>>, <<" ">>}]

RECURSIVE Render(_)
\* the text of a sequence of groups
Render(gs) ==
    IF gs = <<>> THEN <<>>
    ELSE gs[1].num \o gs[1].unit \o gs[1].sep \o Render(Tail(gs))

\* readings of the wall clock (UTC), one per behaviour: in January, and in
\* the March of a leap year
Clocks == {Dt(2023, 1, 15, 12, 0, 0, 0, NaiveTz),
           Dt(2024, 3, 10, 6, 30, 0, 0, NaiveTz)}

\* the values formatted for parse_datetime
DateValues ==
    {d \in [year : {2023, 2024}, month : {1, 2, 11}, day : {1, 9, 29, 30},
            hour : {0, 9, 23}, minute : {0, 59}, second : {0, 7},
            microsecond : {0}, tzinfo : {NaiveTz}] :
        ValidFields(d.year, d.month, d.day, d.hour, d.minute, d.second)}

\* timezone specifiers: zone names, integers and integer-like strings
ZoneNameTexts ==
    {<<"A", "m", "e", "r", "i", "c", "a", "/", "N", "e", "w", "_", "Y", "o", "r", "k">>,
     <<"U", "T", "C">>,
     <<"N", "o", "t", "/", "A", "Z", "o", "n", "e">>}

OffsetTexts ==
    {<<"0">>, <<"-", "3", "0", "0">>, <<"3", "0", "0">>, <<"9", "0">>, <<"1", "4", "3", "9">>, <<"-", "1", "4", "3", "9">>, <<"1", "4", "4", "0">>, <<"-", "1", "4", "4", "0">>, <<"1", "5", "0", "0">>}

OffsetInts == {0, -300, 300, 90, 1439, -1439, 1440, -1440, 1500}

TzSpecs ==
    {TzNone} \cup {TzStr(t) : t \in ZoneNameTexts \cup OffsetTexts \cup {<<>>}}
             \cup {TzInt(n) : n \in OffsetInts}

\* the tzinfo objects instants carry
NewYork(off) == PytzTz("America/New_York", off)

\* reference instants: naive, and aware in New York (winter and summer),
\* in UTC and at a fixed offset
Instants ==
    {Dt(2023, 1, 1, 10, 37, 0, 0, NaiveTz),
     Dt(2023, 1, 1, 10, 37, 0, 0, NewYork(-300)),
     Dt(2023, 6, 1, 12, 0, 0, 0, NewYork(-240)),
     Dt(2023, 3, 12, 3, 30, 0, 0, NewYork(-240)),
     Dt(2023, 6, 1, 12, 0, 0, 0, PytzTz("UTC", 0)),
     Dt(2023, 6, 1, 1, 0, 0, 0, [kind |-> "fixed", name |-> "", offset |-> 90])}

\* the texts handed to parse
TimeTexts ==
    {<<"2", "0", "2", "3", "0", "1", "0", "1">>,
     <<"2", "0", "2", "3", "-", "0", "6", "-", "0", "1", " ", "1", "2", ":", "0", "0", ":", "0", "0">>,
     <<"2", "0", "2", "3", "-", "0", "3", "-", "1", "2", " ", "0", "2", ":", "3", "0">>,
     <<"2", "0", "2", "3", "-", "1", "1", "-", "0", "5", " ", "0", "1", ":", "3", "0">>,
     <<"1", "2", ":", "0", "0">>,
     <<"2", "h">>,
     <<"2", "h", " ", "3", "0", "m">>,
     <<"1", "h", "3", "0", "m">>,
     <<"9", "0">>,
     <<"1", "M">>,
     <<"a", "b", "c">>,
     <<"2", "x">>,
     <<"3", "0", "0", "0", "0", "0", "0", "d">>}

TimeStrs ==
    {TsNone, TsStr(<<>>)} \cup {TsStr(t) : t \in TimeTexts}
                          \cup {TsDt(d) : d \in Instants}

Nows == {TsNone} \cup {TsDt(d) : d \in Instants}

\* the frequencies handed to align, in seconds, and the seconds added to a
\* reference instant to make a ts
FrequencySeconds == {-86400, -3600, -7, 0, 1, 7, 900, 3600, 86400, 604800}

MaxTick == 3

TickSeconds == {0, 1, 59, 3600, 86399} \cup {100000 * k : k \in 1..MaxTick}

(***************************************************************************)
(* The state machine: a call is made from idle and returns to idle.        *)
(***************************************************************************)
NoResult == [ok |-> FALSE, err |-> "not called"]

Init ==
    /\ call = "idle"
    /\ value = <<>>
    /\ groups = <<>>
    /\ clock \in Clocks
    /\ time_str = TsNone
    /\ tz = TzNone
    /\ now = TsNone
    /\ frequency = ZeroTd
    /\ ts = NoDt
    /\ fmt = 0
    /\ result = NoResult

\* parse_timedelta(value) of a raw text
CallParseTimedeltaText(t) ==
    /\ call = "idle"
    /\ call' = "parse_timedelta"
    /\ value' = t
    /\ result' = parse_timedelta(t, clock)
    /\ UNCHANGED <<groups, clock, time_str, tz, now, frequency, ts, fmt>>

\* parse_timedelta(value) of a text built from groups
CallParseTimedeltaGroups(gs) ==
    /\ call = "idle"
    /\ gs # <<>>
    /\ call' = "parse_timedelta"
    /\ groups' = gs
    /\ value' = Render(gs)
    /\ result' = parse_timedelta(Render(gs), clock)
    /\ UNCHANGED <<clock, time_str, tz, now, frequency, ts, fmt>>

\* parse_datetime(date_str) of a raw text
CallParseDatetimeText(t) ==
    /\ call = "idle"
    /\ call' = "parse_datetime"
    /\ value' = t
    /\ result' = parse_datetime(t)
    /\ UNCHANGED <<groups, clock, time_str, tz, now, frequency, ts, fmt>>

\* parse_datetime(datetime_to_str(v, DATETIME_FORMATS[k]))
CallParseDatetimeFormatted(v, k) ==
    /\ call = "idle"
    /\ call' = "parse_datetime"
    /\ ts' = v
    /\ fmt' = k
    /\ value' = datetime_to_str(v, DATETIME_FORMATS[k])
    /\ result' = parse_datetime(datetime_to_str(v, DATETIME_FORMATS[k]))
    /\ UNCHANGED <<groups, clock, time_str, tz, now, frequency>>

\* convert_tzinfo(tz)
CallConvertTzinfo(spec) ==
    /\ call = "idle"
    /\ call' = "convert_tzinfo"
    /\ tz' = spec
    /\ result' = convert_tzinfo(spec)
    /\ UNCHANGED <<value, groups, clock, time_str, now, frequency, ts, fmt>>

\* parse(time_str, tz, now)
CallParse(t, spec, nw) ==
    /\ call = "idle"
    /\ call' = "parse"
    /\ time_str' = t
    /\ tz' = spec
    /\ now' = nw
    /\ result' = parse(t, spec, nw, clock)
    /\ UNCHANGED <<value, groups, clock, frequency, ts, fmt>>

\* align(frequency, ts)
CallAlign(f, t) ==
    /\ call = "idle"
    /\ call' = "align"
    /\ frequency' = f
    /\ ts' = t
    /\ result' = align(f, t)
    /\ UNCHANGED <<value, groups, clock, time_str, tz, now, fmt>>

\* the call returns: nothing of it persists
Return ==
    /\ call # "idle"
    /\ call' = "idle"
    /\ value' = <<>>
    /\ groups' = <<>>
    /\ UNCHANGED clock
    /\ time_str' = TsNone
    /\ tz' = TzNone
    /\ now' = TsNone
    /\ frequency' = ZeroTd
    /\ ts' = NoDt
    /\ fmt' = 0
    /\ result' = NoResult

\* the instants handed to align: a reference instant some seconds later
AlignInstants ==
    {DtMinusTd(d, TdNorm(0, 0 - k, 0)).dt : d \in Instants, k \in TickSeconds}

\* every call starts from idle: the guard is tested before the inputs are
\* drawn
Next ==
    \/ call = "idle" /\ \E t \in RawTexts : CallParseTimedeltaText(t)
    \/ call = "idle" /\ \E gs \in SeqsUpTo(Groups, MaxGroups) :
                            CallParseTimedeltaGroups(gs)
    \/ call = "idle" /\ \E t \in RawTexts : CallParseDatetimeText(t)
    \/ call = "idle" /\ \E v \in DateValues, k \in 1..Len(DATETIME_FORMATS) :
                            CallParseDatetimeFormatted(v, k)
    \/ call = "idle" /\ \E spec \in TzSpecs : CallConvertTzinfo(spec)
    \/ call = "idle" /\ \E t \in TimeStrs, spec \in TzSpecs, nw \in Nows :
                            CallParse(t, spec, nw)
    \/ call = "idle" /\ \E f \in FrequencySeconds, t \in AlignInstants :
                            CallAlign(TdNorm(0, f, 0), t)
    \/ Return

Spec == Init /\ [][Next]_vars

(***************************************************************************)
(* The properties.  Each is stated over the state a call leaves: the       *)
(* inputs it was given and its result.                                     *)
(***************************************************************************)
\* the whole seconds of a duration
Seconds(td) == 86400 * td.days + td.seconds

\* the point on the time line of a datetime: by UTC when aware, by wall
\* clock when naive
Instant(dt) == IF dt.tzinfo.kind = "naive" THEN WallTd(dt) ELSE UtcTd(dt)

\* whether time_str is a non-empty string
IsText(t) == t.kind = "str" /\ t.text # <<>>

\* a specifier the specification calls resolvable: a known zone name, or a
\* minute offset strictly inside (-1440, 1440), integer or integer-like
Resolvable(spec) ==
    \/ spec.kind = "str" /\ Str(spec.s) \in ZoneNames
    \/ PyIntOf(spec).ok /\ PyIntOf(spec).n > -1440 /\ PyIntOf(spec).n < 1440

\* the duration of one group by itself: its number of its unit
GroupDuration(g) ==
    TdOfFloat(TIMEDELTA_ABBREV_DICT(Str(g.unit)), PyFloat(g.num)).td

RECURSIVE GroupsSum(_)
\* the sum of the durations of the groups
GroupsSum(gs) ==
    IF gs = <<>> THEN ZeroTd
    ELSE TdAdd(GroupDuration(gs[1]), GroupsSum(Tail(gs))).td

\* C1: parse_timedelta of a text built from consecutive number-unit groups
\* over the units h, m, min, s, sec, ms, us, d, w, with or without
\* whitespace between the groups, succeeds and returns the sum of the
\* groups' durations ("1h30m" is 5400 seconds).
C1_GroupsSum ==
    (/\ call = "parse_timedelta"
     /\ groups # <<>>
     /\ \A i \in 1..Len(groups) : groups[i].unit \in TableUnits)
    => result.ok /\ result.td = GroupsSum(groups)

\* the days of the month before the month of clk, December before January
PrevMonthDays(clk) ==
    IF clk.month = 1 THEN 31 ELSE monthrange(clk.year, clk.month - 1).n

\* C2: for a group "<n>M" parse_timedelta does not fail and returns int(n)
\* times the days of the month preceding the month of the invocation,
\* January included.
C2_MonthsGroup ==
    (/\ call = "parse_timedelta"
     /\ Len(groups) = 1
     /\ groups[1].unit = <<"M">>)
    => /\ result.ok
       /\ result.td = Td(PyInt(PyFloat(groups[1].num)) * PrevMonthDays(clock),
                         0, 0)

\* C3: for a string that is no absolute layout but a valid relative
\* duration d, an aware now T and a resolvable target zone (a known name or
\* a minute offset inside (-1440, 1440) such as "0"), parse succeeds and
\* returns the instant T - d expressed in America/New_York, whatever the
\* target zone.
C3_RelativeAnyZone ==
    (/\ call = "parse"
     /\ IsText(time_str)
     /\ ~parse_datetime(time_str.text).ok
     /\ parse_timedelta(time_str.text, clock).ok
     /\ now.kind = "datetime"
     /\ now.dt.tzinfo.kind # "naive"
     /\ DtMinusTd(now.dt, parse_timedelta(time_str.text, clock).td).ok
     /\ Resolvable(tz))
    => /\ result.ok
       /\ result.ret.kind = "datetime"
       /\ result.ret.dt.tzinfo.kind = "pytz"
       /\ result.ret.dt.tzinfo.name = "America/New_York"
       /\ UtcTd(result.ret.dt)
            = TdBack(UtcTd(now.dt), parse_timedelta(time_str.text, clock).td)

\* the UTC offset, in minutes, of the wall clock w taken as local time in
\* the resolvable zone spec
OffsetIn(spec, w) ==
    IF PyIntOf(spec).ok THEN PyIntOf(spec).n ELSE LocalOffset(Str(spec.s), w)

\* C4: for a string matching an absolute layout and a resolvable target
\* zone Z (a known name, or a minute offset inside (-1440, 1440) as an
\* integer or an integer-like string, zero included), parse returns an
\* aware instant in America/New_York whose moment is the string's wall
\* clock taken as local time in Z.
C4_AbsoluteAnyZone ==
    (/\ call = "parse"
     /\ IsText(time_str)
     /\ parse_datetime(time_str.text).ok
     /\ Resolvable(tz))
    => /\ result.ok
       /\ result.ret.kind = "datetime"
       /\ result.ret.dt.tzinfo.kind = "pytz"
       /\ result.ret.dt.tzinfo.name = "America/New_York"
       /\ UtcTd(result.ret.dt)
            = TdBack(WallTd(parse_datetime(time_str.text).dt),
                     Td(0, 60 * OffsetIn(tz, WallTd(parse_datetime(time_str.text).dt)), 0))

\* C5: convert_tzinfo gives the numeric form precedence: a specifier that
\* parses as an integer n inside (-1440, 1440) gives a fixed-offset zone of
\* n minutes at every instant with a zero dst; an n outside fails with the
\* offset-range error, and the zone database is not consulted.
C5_NumericPrecedence ==
    (call = "convert_tzinfo" /\ PyIntOf(tz).ok)
    => IF PyIntOf(tz).n > -1440 /\ PyIntOf(tz).n < 1440
       THEN /\ result.ok
            /\ result.tzinfo.kind = "fixed"
            /\ \A d \in Instants :
                 /\ utcoffset(result.tzinfo, d) = TdNorm(0, 60 * PyIntOf(tz).n, 0)
                 /\ dst(result.tzinfo, d) = ZeroTd
       ELSE /\ ~result.ok
            /\ result.err = "ValueError: minute offset must be in [-1439, 1439]"
            /\ result.db = 0

C7_AlignFloor ==
    (call = "align" /\ Seconds(frequency) > 0)
    => /\ result.ok
       /\ ~TdLess(Instant(ts), Instant(result.dt))
       /\ TdLess(TdBack(Instant(ts), Instant(result.dt)), frequency)
       /\ Seconds(TdBack(Instant(result.dt), Instant(EpochFor(ts).dt)))
            % Seconds(frequency) = 0
       /\ align(frequency, result.dt) = result

\* a frequency of a week moved an aware ts back
C7_Witness ==
    /\ call = "align"
    /\ Seconds(frequency) = 604800
    /\ ts.tzinfo.kind = "pytz"
    /\ result.ok
    /\ TdLess(Instant(result.dt), Instant(ts))

\* whether the text has a character the pattern consumes nowhere, or no
\* digit for its number to start from
Unconsumable(t) ==
    \/ \E i \in 1..Len(t) :
         ~(IsWord(t[i]) \/ IsSpace(t[i]) \/ IsSign(t[i]) \/ t[i] = ".")
    \/ \A i \in 1..Len(t) : ~IsDigit(t[i])

\* the unit tokens of the inputs that neither the abbreviation table nor
\* timedelta knows
UnknownUnits == {<<"x">>}

\* C8: parse_timedelta is all-or-nothing: the empty string yields the zero
\* duration; a non-empty text with a region the pattern cannot consume
\* fails; and a text with a group whose unit token is neither an
\* abbreviation nor a canonical unit name fails as a whole, the groups
\* before it valid or not.
C8_AllOrNothing ==
    /\ (call = "parse_timedelta" /\ groups = <<>> /\ value = <<>>)
       => result.ok /\ result.td = ZeroTd
    /\ (call = "parse_timedelta" /\ value # <<>> /\ Unconsumable(value))
       => ~result.ok
    /\ (/\ call = "parse_timedelta"
        /\ \E i \in 1..Len(groups) : groups[i].unit \in UnknownUnits)
       => ~result.ok

\* a valid group followed, after whitespace, by a group of unknown unit
C8_Witness ==
    /\ call = "parse_timedelta"
    /\ Len(groups) = 2
    /\ groups[1].unit \in TableUnits
    /\ groups[1].sep = <<" ">>
    /\ groups[2].unit \in UnknownUnits
    /\ ~result.ok

\* whether dt has the fields of v that the layout carries
CarriesFields(dt, v, items) ==
    \A i \in 1..Len(items) :
       /\ items[i] = "%Y" => dt.year = v.year
       /\ items[i] \in {"%m", "%b"} => dt.month = v.month
       /\ items[i] = "%d" => dt.day = v.day
       /\ items[i] = "%H" => dt.hour = v.hour
       /\ items[i] = "%M" => dt.minute = v.minute
       /\ items[i] = "%S" => dt.second = v.second

\* the layouts that match the whole text
MatchingLayouts(t) ==
    {k \in 1..Len(DATETIME_FORMATS) : strptime(t, DATETIME_FORMATS[k]).ok}

\* C9: parse_datetime returns the parse of the first layout of
\* DATETIME_FORMATS that matches the whole string and fails when none
\* does; so the text a layout P formats a value v to parses back to the
\* fields of v that P carries.
C9_FirstLayoutRoundTrip ==
    /\ call = "parse_datetime"
       => \A M \in {MatchingLayouts(value)} :
            IF M = {}
            THEN /\ ~result.ok
                 /\ result.err = "ValueError: Unrecognized date/time format"
            ELSE result = strptime(value,
                                   DATETIME_FORMATS[CHOOSE k \in M :
                                                      \A j \in M : k <= j])
    /\ (call = "parse_datetime" /\ fmt # 0)
       => result.ok /\ CarriesFields(result.dt, ts, DATETIME_FORMATS[fmt])

\* a value formatted by the first layout parsed back
C9_Witness ==
    /\ call = "parse_datetime"
    /\ fmt = 1
    /\ ts.day = 9
    /\ result.ok
    /\ result.dt.day = 9

\* the text that is valid in both grammars
BothGrammars == <<"2", "0", "2", "3", "0", "1", "0", "1">>

\* C10: parse takes its branches in strict order: an absent time_str or a
\* datetime is returned unchanged with no timezone resolution; otherwise
\* the absolute matcher is tried and, when it succeeds, the relative parser
\* and now are not used ("20230101" is a date); the relative parser runs
\* only after the absolute matcher failed; and parse fails as unparsable
\* exactly when both fail.
C10_BranchOrder ==
    /\ (call = "parse" /\ time_str.kind # "str")
       => result.ok /\ result.ret = time_str /\ result.calls = <<>>
    /\ (call = "parse" /\ IsText(time_str) /\ parse_datetime(time_str.text).ok)
       => /\ result.calls # <<>>
          /\ result.calls[1] = "_as_datetime"
          /\ \A i \in 1..Len(result.calls) : result.calls[i] # "_as_timedelta"
          /\ \A nw \in Nows : parse(time_str, tz, nw, clock) = result
    /\ (call = "parse" /\ time_str = TsStr(BothGrammars) /\ ~Truthy(tz))
       => result.ok /\ result.ret = TsDt(Dt(2023, 1, 1, 0, 0, 0, 0, NaiveTz))
    /\ (/\ call = "parse"
        /\ \E i \in 1..Len(result.calls) : result.calls[i] = "_as_timedelta")
       => /\ result.calls[1] = "_as_datetime"
          /\ result.calls[2] = "_as_timedelta"
          /\ ~parse_datetime(time_str.text).ok
    /\ (call = "parse" /\ IsText(time_str))
       => ((~result.ok /\ result.err = "ValueError: unable to convert to datetime")
           <=> (/\ ~as_datetime(time_str.text).ok
                /\ ~as_timedelta(time_str.text, now, clock).ok))

\* the text valid in both grammars was parsed with a now at hand
C10_Witness ==
    /\ call = "parse"
    /\ time_str = TsStr(BothGrammars)
    /\ now.kind = "datetime"
    /\ result.ok
    /\ result.calls[1] = "_as_datetime"

====
